---- MODULE Spec2Model ----
(***************************************************************************)
(* github-lang-getter: language totals of a GitHub user's repositories     *)
(* (bytes-only mode) and of the user's own commits (commit mode).          *)
(*                                                                         *)
(* Modelled from src/src/github-lang-getter.js.  The specifications:       *)
(*   SpecMap  mapCommitsToResult, applied file by file to bounded inputs   *)
(*   Spec     one call of a public operation against a remote API whose    *)
(*            responses arrive in any order and may fail                   *)
(*   SpecArgs the same call, made with valid and invalid arguments         *)
(*   SpecCalls calls made one after the other, with and without options    *)
(*   SpecFan  a call whose fan-outs are wider than PROMISE_CONCURRENCY     *)
(***************************************************************************)
EXTENDS Integers, Sequences, FiniteSets, TLC

VARIABLES
    \* ---- mapCommitsToResult (SpecMap) ----
    commits,      \* the argument: sequence of commit details, each [files |-> Seq(file)]
    ci,           \* index of the commit the outer _.each is at
    fi,           \* number of files of that commit already visited by the inner _.each
    commitLangs,  \* languages already counted for the current commit
    totals,       \* the result map under construction
    mpc,          \* "idle" | "files" | "done"
    \* ---- one call of a public operation (Spec) ----
    op,           \* the public operation called
    token,        \* its first argument
    username,     \* the username handed to getUserRepos (null for the operations without one)
    options,      \* the argument after the token (after the username for the ByUsername
                  \*   operations, which declare no such parameter)
    remote,       \* what the remote API serves
    defaultOpts,  \* the module-level const defaultOpts (an object, so its content can change)
    earlier,      \* the options of the calls made before this one
    pc,           \* where the call is: "idle" | "start" | "repos" | "repoPages" | "languages"
                  \*   | "user" | "commitLists" | "commitDetails" | "resolved" | "rejected"
    reqs,         \* every HTTP request issued so far: by stage, then by item of the
                  \*   Promise.map, each resource's requests in the order of issue
    opts,         \* getUserRepos: its local options, after _.defaultsDeep
    repos,        \* the repositories of the listing, once getUserRepos has resolved
    user,         \* getCommitsFromRepos: the login commits are attributed to
    langTasks,    \* Promise.map of getRepoLanguageTotals: one task per repository
    commitTasks,  \* Promise.map of getCommitsFromRepos: one getRepoCommits per repository
    summaries,    \* getCommitsFromRepos: commitsLists
    commitUrls,   \* getCommitsFromRepos: the returned commit URLs
    detailTasks,  \* Promise.map of getCommitLanguageTotals: one task per commit URL
    result,       \* the value the operation resolved with
    error         \* the error the operation rejected with

mapVars == <<commits, ci, fi, commitLangs, totals, mpc>>
callVars == <<op, token, username, options, remote>>
modVars == <<defaultOpts, earlier>>
runVars == <<pc, reqs, opts, repos, user, langTasks, commitTasks, summaries, commitUrls,
             detailTasks, result, error>>
vars == <<mapVars, callVars, modVars, runVars>>

---------------------------------------------------------------------------
\* Bounds of the inputs of mapCommitsToResult
MaxCommits == 2      \* commits in one input
MaxFiles == 3        \* changed files in one input, over all its commits
\* Bound of the remote data
MaxRepos == 2        \* repositories of a listing
\* Bound of the callers
MaxCalls == 2        \* calls made one after the other

---------------------------------------------------------------------------
\* Values

Undefined == "undefined"        \* JavaScript undefined / absent property
EmptyMap == [k \in {} |-> 0]    \* {}

Max(a, b) == IF a >= b THEN a ELSE b
Min(a, b) == IF a <= b THEN a ELSE b

\* language-detect: filename -> language name, or undefined
Filenames == {"a.x", "b.y", "README"}
detect_filename(filename) ==
    CASE filename = "a.x" -> "X"
      [] filename = "b.y" -> "Y"
      [] OTHER -> Undefined
Languages == {detect_filename(f) : f \in Filenames} \ {Undefined}

\* file.patch: the lines of a unified-diff fragment, each with its marker ('@@' opens a
\* hunk, '+' an added line, '-' a removed one) and the text after it; a file without
\* a patch (a binary file, a rename) has none
Line(sign, text) == [sign |-> sign, text |-> text]
Patch(lines) == [type |-> "string", lines |-> lines]
NoPatch == [type |-> "undefined", lines |-> <<>>]

\* The patch of one hunk that removes a line and adds the given ones
Added(additions) ==
    Patch(<<Line("@@", "-1 +1"), Line("-", "x")>>
            \o [k \in DOMAIN additions |-> Line("+", additions[k])])

Patches == {Added(<<>>), Added(<<"ab">>), Added(<<"a", "bc">>)}

\* What the API sends in place of a diff it cannot render
Unparseable == Patch(<<Line("", "Binary files differ")>>)

Files == [filename : Filenames \ {"README"}, patch : Patches]
            \cup [filename : {"README"}, patch : {Added(<<"ab">>)}]
            \cup {[filename |-> "a.x", patch |-> NoPatch],
                  [filename |-> "b.y", patch |-> Unparseable]}

\* 'diff\n' + file.patch: a header line, then the lines of the patch; a patch that is
\* undefined is concatenated as the one line 'undefined'
diffText(patch) ==
    <<Line("diff", "")>>
        \o (IF patch.type = "undefined" THEN <<Line("", "undefined")>> ELSE patch.lines)

\* different.parseDiffFromString: a 'diff' line opens an entry, and the entry holds the
\* text of the added lines that follow it; what it hands to its callback
RECURSIVE parseLines(_, _)
parseLines(lines, entries) ==
    IF lines = <<>> THEN entries
    ELSE LET l == Head(lines) IN
         IF l.sign = "diff"
         THEN parseLines(Tail(lines), Append(entries, [additions |-> <<>>]))
         ELSE IF l.sign = "+" /\ entries # <<>>
         THEN parseLines(Tail(lines),
                         [entries EXCEPT ![Len(entries)].additions = Append(@, l.text)])
         ELSE parseLines(Tail(lines), entries)

parseDiffFromString(text) == parseLines(text, <<>>)

---------------------------------------------------------------------------
\* mapCommitsToResult

\* _.reduce(additions, (sum, line) => line.length, 0)
RECURSIVE reduceAdditions(_, _)
reduceAdditions(additions, sum) ==
    IF additions = <<>> THEN sum
    ELSE reduceAdditions(Tail(additions), Len(Head(additions)))

\* byteCount of one file: the reduce over diff[0].additions
byteCount(diff) == reduceAdditions(diff[1].additions, 0)

\* One iteration of the inner _.each: st = [totals, commitLangs], file the visited file
mapFileDup(st, file) ==
    LET language == detect_filename(file.filename) IN
    IF language = Undefined THEN st
    ELSE
        LET t0 == IF language \in DOMAIN st.totals THEN st.totals
                  ELSE [k \in DOMAIN st.totals \cup {language} |->
                          IF k = language THEN [bytes |-> 0, commits |-> 0] ELSE st.totals[k]]
            t1 == [t0 EXCEPT ![language].commits = @ + 1]
            t2 == [t1 EXCEPT ![language].bytes = @ + byteCount(parseDiffFromString(diffText(file.patch)))]
        IN [totals |-> t2, commitLangs |-> st.commitLangs \cup {language}]

\* mapFile without the test of line 214: an unrecognized file gets the key 'undefined'
mapFileNoSkip(st, file) ==
    LET language == detect_filename(file.filename)
        t0 == IF language \in DOMAIN st.totals THEN st.totals
              ELSE [k \in DOMAIN st.totals \cup {language} |->
                      IF k = language THEN [bytes |-> 0, commits |-> 0] ELSE st.totals[k]]
        t1 == IF language \in st.commitLangs THEN t0
              ELSE [t0 EXCEPT ![language].commits = @ + 1]
        t2 == [t1 EXCEPT ![language].bytes = @ + byteCount(parseDiffFromString(diffText(file.patch)))]
    IN [totals |-> t2, commitLangs |-> st.commitLangs \cup {language}]

\* mapFile that returns early from a file without a patch, before it counts the commit
mapFileNeedsPatch(st, file) ==
    LET language == detect_filename(file.filename) IN
    IF language = Undefined \/ file.patch.type = "undefined" THEN st
    ELSE
        LET t0 == IF language \in DOMAIN st.totals THEN st.totals
                  ELSE [k \in DOMAIN st.totals \cup {language} |->
                          IF k = language THEN [bytes |-> 0, commits |-> 0] ELSE st.totals[k]]
            t1 == IF language \in st.commitLangs THEN t0
                  ELSE [t0 EXCEPT ![language].commits = @ + 1]
            t2 == [t1 EXCEPT ![language].bytes = @ + byteCount(parseDiffFromString(diffText(file.patch)))]
        IN [totals |-> t2, commitLangs |-> st.commitLangs \cup {language}]

mapFile(st, file) ==
    LET language == detect_filename(file.filename) IN
    IF language = Undefined THEN st
    ELSE
        \* if (!totals[language]) totals[language] = { bytes: 0, commits: 0 }
        LET t0 == IF language \in DOMAIN st.totals THEN st.totals
                  ELSE [k \in DOMAIN st.totals \cup {language} |->
                          IF k = language THEN [bytes |-> 0, commits |-> 0] ELSE st.totals[k]]
            \* if (!commitLangs.includes(language)) { push; commits += 1 }
            counted == language \in st.commitLangs
            t1 == IF counted THEN t0 ELSE [t0 EXCEPT ![language].commits = @ + 1]
            \* totals[language].bytes += byteCount
            t2 == [t1 EXCEPT ![language].bytes = @ + byteCount(parseDiffFromString(diffText(file.patch)))]
        IN [totals |-> t2, commitLangs |-> st.commitLangs \cup {language}]

\* The inner _.each over commit.files, from a fresh commitLangs
RECURSIVE mapFiles(_, _)
mapFiles(st, files) ==
    IF files = <<>> THEN st ELSE mapFiles(mapFile(st, Head(files)), Tail(files))

\* totals declared inside the outer callback: what is returned is the last commit's
mapCommitsLast(t, cs) ==
    IF cs = <<>> THEN t
    ELSE mapFiles([totals |-> EmptyMap, commitLangs |-> {}], cs[Len(cs)].files).totals

\* The outer _.each over commits
RECURSIVE mapCommits(_, _)
mapCommits(t, cs) ==
    IF cs = <<>> THEN t
    ELSE mapCommits(mapFiles([totals |-> t, commitLangs |-> {}], Head(cs).files).totals, Tail(cs))

mapCommitsToResult(cs) == mapCommits(EmptyMap, cs)

---------------------------------------------------------------------------
\* JavaScript values of the arguments

JsString(s) == [type |-> "string", val |-> s]
JsUndefined == [type |-> "undefined", val |-> ""]
JsNull == [type |-> "null", val |-> ""]
JsNumber(n) == [type |-> "number", val |-> n]
JsArray(items) == [type |-> "array", items |-> items]
NoArray == [type |-> "undefined", items |-> <<>>]

\* if (v): a non-empty string and a number other than 0 are truthy; undefined, null
\* and '' are not
truthy(v) == (v.type = "string" /\ v.val # "") \/ (v.type = "number" /\ v.val # "0")

\* inspector.validate({ type: 'string' }, v).valid: v is there and is a string
\* (the schema states no minLength, so '' is valid)
stringValidation(v) == v.type = "string"

\* An options object: a property the caller left out is undefined
Options(visibility, affiliation) ==
    [type |-> "object", visibility |-> visibility, affiliation |-> affiliation]
\* No options argument
NoOptions == [type |-> "undefined", visibility |-> JsUndefined, affiliation |-> NoArray]

\* const defaultOpts, as the module is loaded
DefaultOpts ==
    Options(JsString("public"), JsArray(<<"owner", "collaborator", "organization_member">>))

\* _.defaultsDeep on two arrays: the destination keeps its elements, and takes from the
\* source the elements at the indexes it does not have
defaultsDeepArray(object, source) ==
    IF object.type = "undefined" THEN source
    ELSE IF source.type = "undefined" THEN object
    ELSE JsArray([i \in 1..Max(Len(object.items), Len(source.items)) |->
                    IF i <= Len(object.items) THEN object.items[i] ELSE source.items[i]])

\* _.defaultsDeep(object, source): what the destination object holds afterwards
\* (a destination that is no object is replaced by a new one)
defaultsDeep(object, source) ==
    IF object.type # "object" THEN source
    ELSE Options(IF object.visibility.type = "undefined" THEN source.visibility
                 ELSE object.visibility,
                 defaultsDeepArray(object.affiliation, source.affiliation))

\* inspector.validate(optionsValidation, o).valid
optionsValidation(o) ==
    /\ o.type = "object"
    /\ o.visibility.type = "string"
    /\ o.affiliation.type = "array"
    /\ \A i \in DOMAIN o.affiliation.items : Len(o.affiliation.items[i]) >= 1

\* items.join(',')
RECURSIVE join(_)
join(items) ==
    IF items = <<>> THEN ""
    ELSE IF Len(items) = 1 THEN items[1]
    ELSE items[1] \o "," \o join(Tail(items))

NoError == [name |-> "none", statusCode |-> 0, message |-> ""]
\* Error(optionsResult.format()) thrown by getUserRepos
OptionsError == [name |-> "Error", statusCode |-> 0, message |-> "too short"]
\* Error(result.format()) thrown by getUserRepos
ValidationError == [name |-> "Error", statusCode |-> 0, message |-> "must be string"]
\* What request() rejects with when the remote API answers with a failure
RemoteErrors == {
    [name |-> "StatusCodeError", statusCode |-> 401, message |-> "Bad credentials"],
    [name |-> "StatusCodeError", statusCode |-> 404, message |-> "Not Found"] }
\* How a request ends: NoError is a 2xx response
Outcomes == {NoError} \cup RemoteErrors

Operations == {"getRepoLanguages", "getRepoLanguagesByUsername",
               "getCommitLanguages", "getCommitLanguagesByUsername"}
ByUsername == {"getRepoLanguagesByUsername", "getCommitLanguagesByUsername"}
BytesOnly == {"getRepoLanguages", "getRepoLanguagesByUsername"}
CommitMode == Operations \ BytesOnly

\* Arguments the validation of getUserRepos accepts and that name someone
ValidTokens == {JsString("tok")}
ValidUsernames == {JsString("alice")}
\* Arguments a caller can pass
Tokens == ValidTokens \cup {JsString(""), JsUndefined}
Usernames == ValidUsernames \cup {JsString("bob"), JsString(""), JsUndefined, JsNumber("42")}
\* Options a caller can pass: none, {}, some properties, an empty affiliation name
OptionsArgs ==
    {NoOptions} \cup
    { Options(v, a) : v \in {JsUndefined, JsString("private")},
                      a \in {NoArray, JsArray(<<"owner">>), JsArray(<<"collaborator", "owner">>),
                             JsArray(<<"">>)} }

---------------------------------------------------------------------------
\* The remote API

RECURSIVE Flatten(_)
Flatten(ss) == IF ss = <<>> THEN <<>> ELSE Head(ss) \o Flatten(Tail(ss))

\* The ways the remote API pages the repositories from..to, in order
RECURSIVE Pagings(_, _)
Pagings(from, to) ==
    IF from > to THEN {<<>>}
    ELSE UNION { { <<[k \in 1..(cut - from + 1) |-> from + k - 1]>> \o rest :
                     rest \in Pagings(cut + 1, to) } : cut \in from..to }

\* A listing of n repositories: one empty page, or pages 1..N of at least one each
RepoListings(n) == IF n = 0 THEN {<< <<>> >>} ELSE Pagings(1, n)

\* What a repository's languages endpoint reports
LanguageMaps == {EmptyMap, [X |-> 2, Y |-> 1], [Y |-> 0]}

\* Commit listings of a repository, page by page, by the author of each summary
CommitListingShapes == {
    << <<"alice", "bob", "alice">> >>,
    << <<"bob">>, <<"alice">> >>,
    << <<"alice">>, <<"null", "noauthor">>, <<"alice">> >> }

Null == [type |-> "null"]
CommitUrl(repo, page, k) == <<repo, page, k>>
CommitSummary(repo, page, k, author) ==
    IF author = "null" THEN Null
    ELSE [type |-> "object", url |-> CommitUrl(repo, page, k),
          author |-> IF author = "noauthor" THEN Null
                     ELSE [type |-> "object", login |-> author]]
CommitListing(repo, shape) ==
    [p \in DOMAIN shape |-> [k \in DOMAIN shape[p] |-> CommitSummary(repo, p, k, shape[p][k])]]

File(filename, additions) == [filename |-> filename, patch |-> Added(additions)]
\* The detail of a commit (the commits after the third of a page change no file)
CommitDetail(url) ==
    [files |-> CASE url[3] = 1 /\ url[2] = 1 -> << File("a.x", <<"ab">>), File("a.x", <<"a", "bc">>) >>
                 [] url[3] = 3 -> << File("b.y", <<"ab">>), File("README", <<"ab">>) >>
                 [] url[3] > 3 -> <<>>
                 [] OTHER -> << File("a.x", <<>>), File("b.y", <<"a", "bc">>) >>]

\* The link header of the first response of a listing: as the API documents it (absent
\* when there is one page, else with rel="next" and rel="last"), or present on every
\* first response without rel="next" (rel="first" alone) or without rel="last"
LinkStyles == {"full", "nonext", "nolast"}
FullLinks == [repos |-> "full", commits |-> "full"]

\* What the repositories report or list: every combination for the first two, and
\* one and the same for those after them
Varied(n, S, rest) == {f \in [1..n -> S] : \A r \in 1..n : r > 2 => f[r] = rest}

\* The remote data an operation can meet: the mode that does not read a part finds it fixed
Remotes(o) ==
    UNION { [repoPages : RepoListings(n),
             languages : IF o \in BytesOnly THEN Varied(n, LanguageMaps, [X |-> 2, Y |-> 1])
                         ELSE {[r \in 1..n |-> EmptyMap]},
             commitPages : IF o \in CommitMode
                           THEN {[r \in 1..n |-> CommitListing(r, sh[r])] :
                                    sh \in Varied(n, CommitListingShapes,
                                                  << <<"alice", "bob", "alice">> >>)}
                           ELSE {[r \in 1..n |-> << <<>> >>]},
             login : {"alice"},
             links : {FullLinks}] : n \in 0..MaxRepos }

---------------------------------------------------------------------------
\* Requests

PROMISE_CONCURRENCY == 10

\* request(options): route and query string of one GET
apiRequest(kind, owner, repo, commit, item, accessToken, page, author) ==
    [kind |-> kind, owner |-> owner, repo |-> repo, commit |-> commit, item |-> item,
     qs |-> [access_token |-> accessToken, page |-> page, author |-> author, per_page |-> 100,
             visibility |-> JsUndefined, affiliation |-> JsUndefined],
     state |-> "inflight", error |-> NoError]

NoCommit == <<0, 0, 0>>

\* getUserRepos: /users/{username}/repos or /user/repos; page 0 is the first request,
\* which states no page; visibility and affiliation are those of the local options
reposRequestBare(s, page) ==
    LET bare == apiRequest("repos", IF truthy(username) THEN username.val ELSE "", 0, NoCommit,
                           0, token, page, JsUndefined)
    IN IF page # 0 THEN bare
       ELSE [bare EXCEPT !.qs.visibility = s.opts.visibility,
                         !.qs.affiliation = JsString(join(s.opts.affiliation.items))]

reposRequest(s, page) ==
    [apiRequest("repos", IF truthy(username) THEN username.val ELSE "", 0, NoCommit, 0,
                token, page, JsUndefined)
        EXCEPT !.qs.visibility = s.opts.visibility,
               !.qs.affiliation = JsString(join(s.opts.affiliation.items))]
\* createAPIRequestPromise(token, null, languages_url)
languagesRequest(s, item, tok) ==
    apiRequest("languages", "", s.repos[item], NoCommit, item, tok, 0, JsUndefined)
\* getCommitsFromRepos: /user
userRequest == apiRequest("user", "", 0, NoCommit, 0, token, 0, JsUndefined)
\* getRepoCommits: repo.url + '/commits'
commitsRequest(s, item, page) ==
    apiRequest("commits", "", s.repos[item], NoCommit, item, token, page, JsString(s.user))
\* createAPIRequestPromise(token, null, commit url)
commitRequest(s, item) ==
    apiRequest("commit", "", 0, s.commitUrls[item], item, token, 0, JsUndefined)

\* The pages of the collection a listing request is about
pagesOf(req) ==
    IF req.kind = "repos" THEN remote.repoPages ELSE remote.commitPages[req.repo]
pageOf(req) == IF req.qs.page = 0 THEN 1 ELSE req.qs.page

\* response.body of a successful request
body(req) ==
    CASE req.kind \in {"repos", "commits"} ->
            IF pageOf(req) \in DOMAIN pagesOf(req) THEN pagesOf(req)[pageOf(req)] ELSE <<>>
      [] req.kind = "languages" -> remote.languages[req.repo]
      [] req.kind = "user" -> [login |-> remote.login]
      [] req.kind = "commit" -> CommitDetail(req.commit)

\* parse(response.headers.link) of a listing response: null when there is no header,
\* else an object with a property for each rel of the header
NoLink == [present |-> FALSE, rels |-> {}, next |-> 0, last |-> 0]
link(req) ==
    LET style == remote.links[req.kind] IN
    IF style = "full"
    THEN IF pageOf(req) < Len(pagesOf(req))
         THEN [present |-> TRUE, rels |-> {"next", "last"},
               next |-> pageOf(req) + 1, last |-> Len(pagesOf(req))]
         ELSE NoLink
    ELSE [present |-> TRUE, rels |-> IF style = "nonext" THEN {"first"} ELSE {"first", "next"},
          next |-> IF style = "nonext" THEN 0 ELSE pageOf(req) + 1, last |-> 0]

\* link.next.page, link.last.page: reading page of a rel the header lacks throws
TypeError == [name |-> "TypeError", statusCode |-> 0,
              message |-> "Cannot read property 'page' of undefined"]
pageThrows(l) == l.present /\ ~({"next", "last"} \subseteq l.rels)

---------------------------------------------------------------------------
\* The call, as transformations of its state s

Cur == [pc |-> pc, reqs |-> reqs, opts |-> opts, repos |-> repos, user |-> user, langTasks |-> langTasks,
        commitTasks |-> commitTasks, summaries |-> summaries, commitUrls |-> commitUrls,
        detailTasks |-> detailTasks, result |-> result, error |-> error]

\* The response to request r has arrived
settle(s, r, err) ==
    [s EXCEPT !.reqs[r].state = IF err = NoError THEN "ok" ELSE "failed",
              !.reqs[r].error = err]

\* The response to request r has arrived and nothing waits for it
unobserved(s, r) == [s EXCEPT !.reqs[r].state = "late"]

\* Requests are kept by resource: the later pages of repository i's commits are
\* entered after the requests of the repositories up to i
issuePages(rs, i, pages) ==
    LET before == SelectSeq(rs, LAMBDA q : q.kind # "commits" \/ q.item <= i)
        after == SelectSeq(rs, LAMBDA q : q.kind = "commits" /\ q.item > i)
    IN before \o pages \o after

\* An awaited promise rejected and nothing catches it: the operation rejects with the error
reject(s, err) == [s EXCEPT !.pc = "rejected", !.error = err]

\* The requests of one kind (and of one item of a Promise.map), in the order of issue
requestsOf(s, kind, item) ==
    SelectSeq(s.reqs, LAMBDA q : q.kind = kind /\ q.item = item)
bodiesOf(rs) == [k \in DOMAIN rs |-> body(rs[k])]

\* ---- Promise.map(items, mapper, { concurrency: PROMISE_CONCURRENCY }) ----
Task(state, err) == [state |-> state, error |-> err]
\* the mapper is called for the first PROMISE_CONCURRENCY items, the others are queued
startMap(n) ==
    [i \in 1..n |-> Task(IF i <= PROMISE_CONCURRENCY THEN "pending" ELSE "queued", NoError)]
firstStartedAll(n) == n

firstStarted(n) == Min(n, PROMISE_CONCURRENCY)
\* _drainQueue after a mapper promise fulfilled: queue.pop() if a slot is free, else 0
nextQueued(tasks) ==
    LET queued == {i \in DOMAIN tasks : tasks[i].state = "queued"}
        inFlight == Cardinality({i \in DOMAIN tasks : tasks[i].state = "pending"})
    IN IF queued # {} /\ inFlight < PROMISE_CONCURRENCY
       THEN CHOOSE i \in queued : \A j \in queued : j <= i
       ELSE 0
\* a map that takes its first settled item for the last
someSettled(tasks) == \E i \in DOMAIN tasks : tasks[i].state \in {"done", "error"}

allSettled(tasks) == \A i \in DOMAIN tasks : tasks[i].state \in {"done", "error"}

\* ---- getRepoLanguageTotals ----
\* if (!totals[key]) totals[key] = 0; totals[key] += obj[key], for every key of obj
addLanguagesOverwrite(t, obj) ==
    [k \in DOMAIN t \cup DOMAIN obj |-> IF k \in DOMAIN obj THEN obj[k] ELSE t[k]]

addLanguages(t, obj) ==
    [k \in DOMAIN t \cup DOMAIN obj |->
        (IF k \in DOMAIN t THEN t[k] ELSE 0) + (IF k \in DOMAIN obj THEN obj[k] ELSE 0)]

RECURSIVE countLanguages(_, _)
countLanguages(t, results) ==
    IF results = <<>> THEN t
    ELSE countLanguages(addLanguages(t, Head(results)), Tail(results))

\* the language requests of the repositories, token being the second argument
getRepoLanguageTotals(s, tok) ==
    LET n == Len(s.repos) IN
    IF n = 0 THEN [s EXCEPT !.pc = "resolved", !.result = countLanguages(EmptyMap, <<>>)]
    ELSE LET s1 == [s EXCEPT !.pc = "languages", !.langTasks = startMap(n)]
         IN [s1 EXCEPT !.reqs = @ \o [k \in 1..firstStarted(n) |-> languagesRequest(s1, k, tok)]]

\* The second argument of getRepoLanguageTotals: getRepoLanguagesByUsername passes none
languagesToken == IF op = "getRepoLanguages" THEN token ELSE JsUndefined

\* a language request ended
languagesResponseCaught(s, r, err) ==
    LET s1 == settle(s, r, err)
        i == s.reqs[r].item
        s2 == [s1 EXCEPT !.langTasks[i] = Task("done", NoError)]
        q == nextQueued(s2.langTasks)
        s3 == IF q = 0 THEN s2
              ELSE [s2 EXCEPT !.langTasks[q].state = "pending",
                              !.reqs = @ \o <<languagesRequest(s2, q, languagesToken)>>]
    IN IF allSettled(s3.langTasks)
       THEN [s3 EXCEPT !.pc = "resolved",
               !.result = countLanguages(EmptyMap,
                   [k \in DOMAIN s3.langTasks |->
                       IF requestsOf(s3, "languages", k)[1].state = "ok"
                       THEN body(requestsOf(s3, "languages", k)[1]) ELSE EmptyMap])]
       ELSE s3

languagesResponse(s, r, err) ==
    LET s1 == settle(s, r, err)
        i == s.reqs[r].item
    IN IF err # NoError
       THEN reject([s1 EXCEPT !.langTasks[i] = Task("rejected", err)], err)
       ELSE LET s2 == [s1 EXCEPT !.langTasks[i] = Task("done", NoError)]
                q == nextQueued(s2.langTasks)
                s3 == IF q = 0 THEN s2
                      ELSE [s2 EXCEPT !.langTasks[q].state = "pending",
                                      !.reqs = @ \o <<languagesRequest(s2, q, languagesToken)>>]
            IN IF allSettled(s3.langTasks)
               THEN [s3 EXCEPT !.pc = "resolved",
                       !.result = countLanguages(EmptyMap,
                           [k \in DOMAIN s3.langTasks |->
                               body(requestsOf(s3, "languages", k)[1])])]
               ELSE s3

\* ---- getCommitLanguageTotals ----
\* the commit-detail requests of the attributed commits, then mapCommitsToResult
startDetails(s) ==
    LET n == Len(s.commitUrls) IN
    IF n = 0 THEN [s EXCEPT !.pc = "resolved", !.result = mapCommitsToResult(<<>>)]
    ELSE LET s1 == [s EXCEPT !.pc = "commitDetails", !.detailTasks = startMap(n)]
         IN [s1 EXCEPT !.reqs = @ \o [k \in 1..firstStarted(n) |-> commitRequest(s1, k)]]

\* a commit-detail request ended
commitResponse(s, r, err) ==
    LET s1 == settle(s, r, err)
        i == s.reqs[r].item
    IN IF err # NoError
       THEN reject([s1 EXCEPT !.detailTasks[i] = Task("rejected", err)], err)
       ELSE LET s2 == [s1 EXCEPT !.detailTasks[i] = Task("done", NoError)]
                q == nextQueued(s2.detailTasks)
                s3 == IF q = 0 THEN s2
                      ELSE [s2 EXCEPT !.detailTasks[q].state = "pending",
                                      !.reqs = @ \o <<commitRequest(s2, q)>>]
            IN IF allSettled(s3.detailTasks)
               THEN [s3 EXCEPT !.pc = "resolved",
                       !.result = mapCommitsToResult(
                           [k \in DOMAIN s3.detailTasks |->
                               body(requestsOf(s3, "commit", k)[1])])]
               ELSE s3

\* ---- getCommitsFromRepos ----
\* c && c.author && c.author.login === user
attributedAnyAuthor(c, u) == c # Null /\ c.author # Null

attributed(c, u) == c # Null /\ c.author # Null /\ c.author.login = u

\* a forEach that keeps, of a repository whose listing failed, the pages that arrived
RECURSIVE commitsListsOfPartial(_, _)
commitsListsOfPartial(s, i) ==
    IF i > Len(s.commitTasks) THEN <<>>
    ELSE Flatten(bodiesOf(SelectSeq(requestsOf(s, "commits", i), LAMBDA q : q.state = "ok")))
         \o commitsListsOfPartial(s, i + 1)

\* responses.forEach: the bodies of the repositories whose result carries no error
RECURSIVE commitsListsOf(_, _)
commitsListsOf(s, i) ==
    IF i > Len(s.commitTasks) THEN <<>>
    ELSE (IF s.commitTasks[i].state = "error" THEN <<>>
          ELSE Flatten(bodiesOf(requestsOf(s, "commits", i))))
         \o commitsListsOf(s, i + 1)

\* every repository's getRepoCommits has settled: filter, map('url'), then the details
afterCommitLists(s) ==
    LET lists == commitsListsOf(s, 1)
        kept == SelectSeq(lists, LAMBDA c : attributed(c, s.user))
    IN startDetails([s EXCEPT !.summaries = lists,
                              !.commitUrls = [k \in DOMAIN kept |-> kept[k].url]])

\* Promise.map over the repositories' commit URLs
startCommitLists(s) ==
    LET n == Len(s.repos) IN
    IF n = 0 THEN afterCommitLists(s)
    ELSE LET s1 == [s EXCEPT !.pc = "commitLists", !.commitTasks = startMap(n)]
         IN [s1 EXCEPT !.reqs = @ \o [k \in 1..firstStarted(n) |-> commitsRequest(s1, k, 0)]]

\* The third argument of getCommitLanguageTotals: getCommitLanguages passes none
commitUsernameDropped == JsUndefined

commitUsername == IF op = "getCommitLanguagesByUsername" THEN username ELSE JsUndefined

\* if (username) user = username; else the login of the token's owner is requested
getCommitsFromRepos(s) ==
    IF truthy(commitUsername) THEN startCommitLists([s EXCEPT !.user = commitUsername.val])
    ELSE [s EXCEPT !.pc = "user", !.reqs = @ \o <<userRequest>>]

\* the /user request ended
userResponseCaught(s, r, err) ==
    LET s1 == settle(s, r, err) IN
    IF err # NoError THEN startCommitLists(s1)
    ELSE startCommitLists([s1 EXCEPT !.user = body(s.reqs[r]).login])

userResponse(s, r, err) ==
    LET s1 == settle(s, r, err) IN
    IF err # NoError THEN reject(s1, err)
    ELSE startCommitLists([s1 EXCEPT !.user = body(s.reqs[r]).login])

\* getRepoCommits(...).catch((error) => { return { error: error }; })
getRepoCommitsNoCatch(err) == Task("rejected", err)

getRepoCommitsCatch(err) == Task("error", err)

\* the mapper promise of repository i settled with outcome
commitTaskSettled(s, i, outcome) ==
    LET s1 == [s EXCEPT !.commitTasks[i] = outcome] IN
    IF outcome.state = "rejected" THEN reject(s1, outcome.error)
    ELSE LET q == nextQueued(s1.commitTasks)
             s2 == IF q = 0 THEN s1
                   ELSE [s1 EXCEPT !.commitTasks[q].state = "pending",
                                   !.reqs = @ \o <<commitsRequest(s1, q, 0)>>]
         IN IF allSettled(s2.commitTasks) THEN afterCommitLists(s2) ELSE s2

\* ---- getRepoCommits ----
\* for (let page = start; page <= end; page++), start and end from the link header
repoCommitPages(l) ==
    IF ~l.present THEN <<>> ELSE [k \in 1..Max(0, l.last - l.next + 1) |-> l.next + k - 1]

\* the first request of repository i ended
commitsFirstResponse(s, r, err) ==
    LET s1 == settle(s, r, err)
        i == s.reqs[r].item
    IN IF err # NoError THEN commitTaskSettled(s1, i, getRepoCommitsCatch(err))
       ELSE IF pageThrows(link(s.reqs[r]))
       THEN commitTaskSettled(s1, i, getRepoCommitsCatch(TypeError))
       ELSE LET pages == repoCommitPages(link(s.reqs[r])) IN
            IF pages = <<>> THEN commitTaskSettled(s1, i, Task("done", NoError))
            ELSE [s1 EXCEPT !.reqs = issuePages(@, i,
                                    [k \in DOMAIN pages |-> commitsRequest(s1, i, pages[k])])]

\* a later page of repository i ended while Promise.all(promises) is awaited
commitsPageResponse(s, r, err) ==
    LET s1 == settle(s, r, err)
        i == s.reqs[r].item
        rs == requestsOf(s1, "commits", i)
    IN IF err # NoError THEN commitTaskSettled(s1, i, getRepoCommitsCatch(err))
       ELSE IF \A k \in DOMAIN rs : rs[k].state = "ok"
            THEN commitTaskSettled(s1, i, Task("done", NoError))
            ELSE s1

\* ---- getUserRepos ----
\* getUserRepos has resolved with every page: the two modes part here
afterUserRepos(s) ==
    LET s1 == [s EXCEPT !.repos = Flatten(bodiesOf(requestsOf(s, "repos", 0)))] IN
    IF op \in BytesOnly THEN getRepoLanguageTotals(s1, languagesToken)
    ELSE getCommitsFromRepos(s1)

\* for (let page = start; page <= end; page++), start and end from the link header
userRepoPagesSkipLast(l) ==
    IF ~l.present THEN <<>> ELSE [k \in 1..Max(0, l.last - l.next) |-> l.next + k - 1]

userRepoPages(l) ==
    IF ~l.present THEN <<>> ELSE [k \in 1..Max(0, l.last - l.next + 1) |-> l.next + k - 1]

\* the first request ended
userReposFirstResponse(s, r, err) ==
    LET s1 == settle(s, r, err) IN
    IF err # NoError THEN reject(s1, err)
    ELSE IF pageThrows(link(s.reqs[r])) THEN reject(s1, TypeError)
    ELSE LET pages == userRepoPages(link(s.reqs[r])) IN
         IF pages = <<>> THEN afterUserRepos(s1)
         ELSE [s1 EXCEPT !.pc = "repoPages",
                         !.reqs = @ \o [k \in DOMAIN pages |-> reposRequest(s1, pages[k])]]

\* await Promise.all(promises): a page request failed
userReposPageFailedIgnored(s, err) ==
    IF \A k \in DOMAIN s.reqs : s.reqs[k].state # "inflight" THEN afterUserRepos(s) ELSE s

\* a rejection of a page that is swallowed: nothing is left that settles the operation
userReposPageFailedHang(s, err) == s

userReposPageFailed(s, err) == reject(s, err)

\* a later page ended while Promise.all(promises) is awaited
userReposPageResponse(s, r, err) ==
    LET s1 == settle(s, r, err) IN
    IF err # NoError THEN userReposPageFailed(s1, err)
    ELSE IF \A k \in DOMAIN s1.reqs : s1.reqs[k].state = "ok" THEN afterUserRepos(s1)
         ELSE s1

\* the validation at the head of getUserRepos
userReposValid ==
    IF truthy(username) THEN stringValidation(username) ELSE stringValidation(token)

\* The third argument of getUserRepos: the ByUsername operations pass none
userReposOptions == IF op \in ByUsername THEN NoOptions ELSE options

\* options = defaultOpts stands in for an argument that is undefined
userReposParameter == IF userReposOptions.type = "undefined" THEN defaultOpts ELSE userReposOptions

\* What const defaultOpts holds after options = _.defaultsDeep(options, defaultOpts):
\* it is the destination only when it stands in for the missing argument
defaultOptsMerged == defaultsDeep(userReposParameter, defaultOpts)

defaultOptsAfter ==
    IF userReposOptions.type = "undefined" THEN defaultsDeep(defaultOpts, defaultOpts)
    ELSE defaultOpts

\* the call up to the first await
callEagerPage(s) ==
    LET s1 == [s EXCEPT !.opts = defaultsDeep(userReposParameter, defaultOpts)] IN
    IF ~truthy(username) /\ ~optionsValidation(s1.opts) THEN reject(s1, OptionsError)
    ELSE IF ~userReposValid THEN reject(s1, ValidationError)
    ELSE [s1 EXCEPT !.pc = "repos", !.reqs = <<reposRequest(s1, 0), reposRequest(s1, 2)>>]

call(s) ==
    LET s1 == [s EXCEPT !.opts = defaultsDeep(userReposParameter, defaultOpts)] IN
    IF ~truthy(username) /\ ~optionsValidation(s1.opts) THEN reject(s1, OptionsError)
    ELSE IF ~userReposValid THEN reject(s1, ValidationError)
    ELSE [s1 EXCEPT !.pc = "repos", !.reqs = <<reposRequest(s1, 0)>>]

---------------------------------------------------------------------------
\* Spec: one call of a public operation

Set(s) ==
    /\ pc' = s.pc
    /\ reqs' = s.reqs
    /\ opts' = s.opts
    /\ repos' = s.repos
    /\ user' = s.user
    /\ langTasks' = s.langTasks
    /\ commitTasks' = s.commitTasks
    /\ summaries' = s.summaries
    /\ commitUrls' = s.commitUrls
    /\ detailTasks' = s.detailTasks
    /\ result' = s.result
    /\ error' = s.error

IdleMap ==
    /\ commits = <<>>
    /\ ci = 0
    /\ fi = 0
    /\ commitLangs = {}
    /\ totals = EmptyMap
    /\ mpc = "idle"

IdleRun ==
    /\ pc = "idle"
    /\ reqs = <<>>
    /\ opts = NoOptions
    /\ repos = <<>>
    /\ user = ""
    /\ langTasks = <<>>
    /\ commitTasks = <<>>
    /\ summaries = <<>>
    /\ commitUrls = <<>>
    /\ detailTasks = <<>>
    /\ result = EmptyMap
    /\ error = NoError

\* The module has been loaded and no call has been made before
Loaded ==
    /\ defaultOpts = DefaultOpts
    /\ earlier = <<>>

\* The call has been made and has not run yet
Called ==
    /\ IdleMap
    /\ pc = "start"
    /\ reqs = <<>>
    /\ opts = NoOptions
    /\ repos = <<>>
    /\ user = ""
    /\ langTasks = <<>>
    /\ commitTasks = <<>>
    /\ summaries = <<>>
    /\ commitUrls = <<>>
    /\ detailTasks = <<>>
    /\ result = EmptyMap
    /\ error = NoError

\* Spec: a call with valid arguments, against any remote data
Init ==
    /\ op \in Operations
    /\ token \in ValidTokens
    /\ username \in (IF op \in ByUsername THEN ValidUsernames ELSE {JsNull})
    /\ options = NoOptions
    /\ remote \in Remotes(op)
    /\ Loaded
    /\ Called

\* SpecArgs: a call with any arguments, against one remote
ArgsRemote ==
    [repoPages |-> << <<1>>, <<2>> >>,
     languages |-> << [X |-> 2, Y |-> 1], [Y |-> 0] >>,
     commitPages |-> << CommitListing(1, << <<"bob">>, <<"alice">> >>),
                        CommitListing(2, << <<"alice", "bob", "alice">> >>) >>,
     login |-> "alice",
     links |-> FullLinks]

InitArgs ==
    /\ op \in Operations
    /\ token \in Tokens
    /\ username \in (IF op \in ByUsername THEN Usernames ELSE {JsNull})
    /\ options = NoOptions
    /\ remote = ArgsRemote
    /\ Loaded
    /\ Called

Call ==
    /\ pc = "start"
    /\ Set(call(Cur))
    /\ defaultOpts' = defaultOptsAfter
    /\ UNCHANGED <<mapVars, callVars, earlier>>

Waiting(r, kind) == r \in DOMAIN reqs /\ reqs[r].state = "inflight" /\ reqs[r].kind = kind

ReposFirstResponse ==
    /\ pc = "repos"
    /\ \E r \in DOMAIN reqs, err \in Outcomes :
        /\ Waiting(r, "repos")
        /\ Set(userReposFirstResponse(Cur, r, err))
    /\ UNCHANGED <<mapVars, callVars, modVars>>

ReposPageResponse ==
    /\ pc = "repoPages"
    /\ \E r \in DOMAIN reqs, err \in Outcomes :
        /\ Waiting(r, "repos")
        /\ Set(userReposPageResponse(Cur, r, err))
    /\ UNCHANGED <<mapVars, callVars, modVars>>

LanguagesResponse ==
    /\ pc = "languages"
    /\ \E r \in DOMAIN reqs, err \in Outcomes :
        /\ Waiting(r, "languages")
        /\ Set(languagesResponse(Cur, r, err))
    /\ UNCHANGED <<mapVars, callVars, modVars>>

UserResponse ==
    /\ pc = "user"
    /\ \E r \in DOMAIN reqs, err \in Outcomes :
        /\ Waiting(r, "user")
        /\ Set(userResponse(Cur, r, err))
    /\ UNCHANGED <<mapVars, callVars, modVars>>

CommitsFirstResponse ==
    /\ pc = "commitLists"
    /\ \E r \in DOMAIN reqs, err \in Outcomes :
        /\ Waiting(r, "commits")
        /\ reqs[r].qs.page = 0
        /\ Set(commitsFirstResponse(Cur, r, err))
    /\ UNCHANGED <<mapVars, callVars, modVars>>

CommitsPageResponse ==
    /\ pc = "commitLists"
    /\ \E r \in DOMAIN reqs, err \in Outcomes :
        /\ Waiting(r, "commits")
        /\ reqs[r].qs.page # 0
        /\ commitTasks[reqs[r].item].state = "pending"
        /\ Set(commitsPageResponse(Cur, r, err))
    /\ UNCHANGED <<mapVars, callVars, modVars>>

CommitResponse ==
    /\ pc = "commitDetails"
    /\ \E r \in DOMAIN reqs, err \in Outcomes :
        /\ Waiting(r, "commit")
        /\ Set(commitResponse(Cur, r, err))
    /\ UNCHANGED <<mapVars, callVars, modVars>>

\* A response nothing waits for any more: the operation has rejected, or the
\* getRepoCommits it belongs to has already failed on another page. Whether it is a
\* success or a failure, no handler of the program sees it.
Unobserved(r) ==
    /\ r \in DOMAIN reqs
    /\ reqs[r].state = "inflight"
    /\ \/ pc \in {"resolved", "rejected"}
       \/ /\ reqs[r].kind = "commits"
          /\ commitTasks[reqs[r].item].state # "pending"

\* Such responses are taken one at a time, in the order of the requests: the program
\* runs no code on any of them, so the order among them changes nothing it does.
LateResponse ==
    /\ \E r \in DOMAIN reqs :
        /\ Unobserved(r)
        /\ \A q \in 1..(r - 1) : ~Unobserved(q)
        /\ Set(unobserved(Cur, r))
    /\ UNCHANGED <<mapVars, callVars, modVars>>

Next ==
    \/ Call
    \/ ReposFirstResponse
    \/ ReposPageResponse
    \/ LanguagesResponse
    \/ UserResponse
    \/ CommitsFirstResponse
    \/ CommitsPageResponse
    \/ CommitResponse
    \/ LateResponse

Spec == Init /\ [][Next]_vars

SpecArgs == InitArgs /\ [][Next]_vars

\* SpecLive: a call with any of the arguments of SpecArgs runs up to its first await,
\* and every request is answered, with success or with failure. The second is weak
\* fairness of the answers written out
\* (WF_vars(A) is []<>~ENABLED <<A>>_vars \/ []<><<A>>_vars): an answer can arrive
\* exactly when a request is in flight.
InFlightExists == \E r \in DOMAIN reqs : reqs[r].state = "inflight"
Answer == \E r \in DOMAIN reqs : reqs[r].state = "inflight" /\ reqs'[r].state # "inflight"
SpecLive ==
    /\ InitArgs /\ [][Next]_vars
    /\ WF_vars(Call)
    /\ ([]<>(~InFlightExists) \/ []<><<Answer>>_vars)

\* SpecLinks: calls that meet each style of link header on the first response of the
\* repository listing and of the commit listings
InitLinks ==
    /\ op \in Operations
    /\ token \in ValidTokens
    /\ username \in (IF op \in ByUsername THEN ValidUsernames ELSE {JsNull})
    /\ options = NoOptions
    /\ remote \in {[ArgsRemote EXCEPT !.links = l] : l \in [repos : LinkStyles, commits : LinkStyles]}
    /\ Loaded
    /\ Called

SpecLinks == InitLinks /\ [][Next]_vars

\* SpecCalls: calls made one after the other in one process (one loaded module), each
\* with or without options, the next once the one before has settled and its requests
\* have been answered
InitCalls ==
    /\ op \in Operations
    /\ token \in ValidTokens
    /\ username \in (IF op \in ByUsername THEN ValidUsernames \cup {JsString("")} ELSE {JsNull})
    /\ options \in OptionsArgs
    /\ remote = ArgsRemote
    /\ Loaded
    /\ Called

CallAgain ==
    /\ pc \in {"resolved", "rejected"}
    /\ \A r \in DOMAIN reqs : reqs[r].state # "inflight"
    /\ Len(earlier) < MaxCalls - 1
    /\ earlier' = Append(earlier, options)
    /\ op' \in Operations
    /\ username' \in (IF op' \in ByUsername THEN ValidUsernames \cup {JsString("")} ELSE {JsNull})
    /\ options' \in OptionsArgs
    /\ pc' = "start"
    /\ reqs' = <<>>
    /\ opts' = NoOptions
    /\ repos' = <<>>
    /\ user' = ""
    /\ langTasks' = <<>>
    /\ commitTasks' = <<>>
    /\ summaries' = <<>>
    /\ commitUrls' = <<>>
    /\ detailTasks' = <<>>
    /\ result' = EmptyMap
    /\ error' = NoError
    /\ UNCHANGED <<mapVars, token, remote, defaultOpts>>

NextCalls == Next \/ CallAgain

SpecCalls == InitCalls /\ [][NextCalls]_vars

\* SpecFan: calls that meet more repositories, commits or pages than PROMISE_CONCURRENCY
FanOut == PROMISE_CONCURRENCY + 1

NoCommits(n) == [r \in 1..n |-> << <<>> >>]
NoLanguages(n) == [r \in 1..n |-> EmptyMap]

\* FanOut repositories on two listing pages, for getRepoLanguageTotals
ManyRepos ==
    [repoPages |-> << [k \in 1..PROMISE_CONCURRENCY |-> k], <<FanOut>> >>,
     languages |-> [r \in 1..FanOut |-> IF r = FanOut THEN [Y |-> 0] ELSE [X |-> 2, Y |-> 1]],
     commitPages |-> NoCommits(FanOut),
     login |-> "alice",
     links |-> FullLinks]

\* one repository with FanOut commits of the caller, for getCommitLanguageTotals
ManyCommits ==
    [repoPages |-> << <<1>> >>,
     languages |-> NoLanguages(1),
     commitPages |-> << CommitListing(1, << [k \in 1..FanOut |-> "alice"] >>) >>,
     login |-> "alice",
     links |-> FullLinks]

\* one repository whose commit listing has FanOut pages after the first, for getRepoCommits
ManyPages ==
    [repoPages |-> << <<1>> >>,
     languages |-> NoLanguages(1),
     commitPages |-> << CommitListing(1, [p \in 1..(FanOut + 1) |-> <<"bob">>]) >>,
     login |-> "alice",
     links |-> FullLinks]

InitFan ==
    /\ \/ op = "getRepoLanguages" /\ username = JsNull /\ remote = ManyRepos
       \/ op = "getCommitLanguages" /\ username = JsNull /\ remote = ManyCommits
       \/ op = "getCommitLanguagesByUsername" /\ username = JsString("alice")
             /\ remote = ManyPages
    /\ token = JsString("tok")
    /\ options = NoOptions
    /\ Loaded
    /\ Called

SpecFan == InitFan /\ [][Next]_vars

---------------------------------------------------------------------------
\* Inputs of SpecMap: at most MaxCommits commits with at most MaxFiles files in all

\* The ways to give n files to at most c commits, as the number of files of each
RECURSIVE SumSizes(_)
SumSizes(sz) == IF sz = <<>> THEN 0 ELSE Head(sz) + SumSizes(Tail(sz))
Sizes(c, n) == {sz \in UNION {[1..k -> 0..n] : k \in 0..c} : SumSizes(sz) = n}

\* The commits that hold the files of flat, in order, sz[i] of them in commit i
Split(flat, sz) ==
    [i \in DOMAIN sz |->
        [files |-> SubSeq(flat, SumSizes(SubSeq(sz, 1, i - 1)) + 1,
                                SumSizes(SubSeq(sz, 1, i)))]]

InitMap ==
    /\ IdleRun
    /\ op = "getCommitLanguages"
    /\ token = JsString("tok")
    /\ username = JsNull
    /\ options = NoOptions
    /\ Loaded
    /\ remote = [repoPages |-> << <<>> >>, languages |-> <<>>, commitPages |-> <<>>,
                 login |-> "alice", links |-> FullLinks]
    /\ \E n \in 0..MaxFiles :
          \E flat \in [1..n -> Files], sz \in Sizes(MaxCommits, n) :
              commits = Split(flat, sz)
    /\ ci = 1
    /\ fi = 0
    /\ commitLangs = {}
    /\ totals = EmptyMap
    /\ mpc = "files"

\* inner _.each callback on the next file of commits[ci]
MapFile ==
    /\ mpc = "files"
    /\ ci <= Len(commits)
    /\ fi < Len(commits[ci].files)
    /\ LET st == mapFile([totals |-> totals, commitLangs |-> commitLangs],
                         commits[ci].files[fi + 1])
       IN /\ totals' = st.totals
          /\ commitLangs' = st.commitLangs
    /\ fi' = fi + 1
    /\ UNCHANGED <<commits, ci, mpc, callVars, modVars, runVars>>

\* the outer _.each moves to the next commit: const commitLangs = []
MapNextCommit ==
    /\ mpc = "files"
    /\ ci <= Len(commits)
    /\ fi = Len(commits[ci].files)
    /\ ci' = ci + 1
    /\ fi' = 0
    /\ commitLangs' = {}
    /\ UNCHANGED <<commits, totals, mpc, callVars, modVars, runVars>>

\* return totals
MapReturn ==
    /\ mpc = "files"
    /\ ci > Len(commits)
    /\ mpc' = "done"
    /\ UNCHANGED <<commits, ci, fi, commitLangs, totals, callVars, modVars, runVars>>

NextMap == MapFile \/ MapNextCommit \/ MapReturn

SpecMap == InitMap /\ [][NextMap]_vars

---------------------------------------------------------------------------
\* Reference quantities of the commit-mode claims, computed from the input

RECURSIVE SumLineLengths(_)
SumLineLengths(lines) ==
    IF lines = <<>> THEN 0 ELSE Len(Head(lines)) + SumLineLengths(Tail(lines))

\* Character length of every added line of a patch, the marker not counted
SumAdded(patch) ==
    LET added == SelectSeq(patch.lines, LAMBDA l : l.sign = "+")
    IN SumLineLengths([k \in DOMAIN added |-> added[k].text])

HasLanguage(files, L) == \E k \in DOMAIN files : detect_filename(files[k].filename) = L

\* Added text of the files of language L among files
RECURSIVE AddedOfLanguage(_, _)
AddedOfLanguage(files, L) ==
    IF files = <<>> THEN 0
    ELSE (IF detect_filename(Head(files).filename) = L THEN SumAdded(Head(files).patch) ELSE 0)
         + AddedOfLanguage(Tail(files), L)

RECURSIVE AddedOfLanguageInCommits(_, _)
AddedOfLanguageInCommits(cs, L) ==
    IF cs = <<>> THEN 0
    ELSE AddedOfLanguage(Head(cs).files, L) + AddedOfLanguageInCommits(Tail(cs), L)

\* Files of the current commit visited so far
VisitedFiles == IF ci <= Len(commits) THEN SubSeq(commits[ci].files, 1, fi) ELSE <<>>

\* Commits that contain a file of language L, among those visited so far
CommitsTouching(L) ==
    Cardinality({i \in 1..Min(ci - 1, Len(commits)) : HasLanguage(commits[i].files, L)})
    + (IF HasLanguage(VisitedFiles, L) THEN 1 ELSE 0)

\* C2: at every point of the aggregation, a language's commits counter equals the
\* number of commits visited so far that contain at least one file of that language
\* (so one commit adds at most one, however many of its files have the language),
\* and a language no visited file has is no key of the totals.
C2_CommitsOncePerCommit ==
    mpc # "idle" =>
        \A L \in Languages :
            IF CommitsTouching(L) = 0 THEN L \notin DOMAIN totals
            ELSE L \in DOMAIN totals /\ totals[L].commits = CommitsTouching(L)

\* C2 witness: done, two commits touch X, one of them with two X files
C2_Witness ==
    /\ mpc = "done"
    /\ Len(commits) = 2
    /\ \E i \in 1..2 : Cardinality({k \in DOMAIN commits[i].files :
                                      detect_filename(commits[i].files[k].filename) = "X"}) = 2
    /\ \A i \in 1..2 : HasLanguage(commits[i].files, "X")
    /\ totals["X"].commits = 2

\* C3: visiting one file with a recognized language adds to that language's bytes
\* the sum of the lengths of every added line of the file's patch.
C3_BytesOfOneFile ==
    [][ (mpc = "files" /\ fi' = fi + 1) =>
          LET file == commits[ci].files[fi + 1]
              L == detect_filename(file.filename)
              before == IF L \in DOMAIN totals THEN totals[L].bytes ELSE 0
          IN L # Undefined => totals'[L].bytes - before = SumAdded(file.patch) ]_vars

\* C4: the returned bytes of a language is the sum of the added text of every file
\* of that language, each file counted (no per-commit dedup).
C4_BytesPerFileNoDedup ==
    mpc = "done" =>
        \A L \in DOMAIN totals : totals[L].bytes = AddedOfLanguageInCommits(commits, L)

---------------------------------------------------------------------------
\* Reference quantities of the pipeline claims, computed from the remote data

\* Every repository of the listing, page after page
AllRepos == Flatten(remote.repoPages)

RequestsOfKind(kind) == {r \in DOMAIN reqs : reqs[r].kind = kind}
FailedOfKind(kind) == {r \in RequestsOfKind(kind) : reqs[r].state = "failed"}

ReportedLanguages == UNION {DOMAIN remote.languages[AllRepos[k]] : k \in DOMAIN AllRepos}

RECURSIVE ReportedBytes(_, _)
ReportedBytes(L, k) ==
    IF k > Len(AllRepos) THEN 0
    ELSE (IF L \in DOMAIN remote.languages[AllRepos[k]] THEN remote.languages[AllRepos[k]][L]
          ELSE 0) + ReportedBytes(L, k + 1)

\* C1: a bytes-only operation all of whose requests have succeeded has resolved, and
\* it never resolves otherwise; the resolved map has exactly the languages some listed
\* repository reports, each with the sum over all listed repositories (of every
\* listing page) of the bytes reported for it, a non-negative integer.
C1_RepoLanguageTotals ==
    op \in BytesOnly =>
        /\ (reqs # <<>> /\ \A r \in DOMAIN reqs : reqs[r].state = "ok") => pc = "resolved"
        /\ pc = "resolved" =>
              /\ DOMAIN result = ReportedLanguages
              /\ \A L \in ReportedLanguages :
                    result[L] \in Nat /\ result[L] = ReportedBytes(L, 1)

\* C1 witness: resolved over two listing pages whose repositories both report X
C1_Witness ==
    /\ op \in BytesOnly
    /\ pc = "resolved"
    /\ Len(remote.repoPages) = 2
    /\ "X" \in DOMAIN result /\ result["X"] = 4
    /\ "Y" \in DOMAIN result /\ result["Y"] = 2

\* getUserRepos has resolved
UserReposResolved ==
    /\ RequestsOfKind("repos") # {}
    /\ \A r \in RequestsOfKind("repos") : reqs[r].state = "ok"
    /\ pc \notin {"repos", "repoPages"}

\* The requests of one collection ask for each of its n pages once and for nothing else
EachPageOnce(rs, n) ==
    /\ Cardinality(rs) = n
    /\ \A p \in 1..n : Cardinality({r \in rs : pageOf(reqs[r]) = p}) = 1

\* C5: once getUserRepos has resolved, it returns the repositories of every page of the
\* listing once and in page order, and each page was requested exactly once; the same
\* holds of the commit summaries of every repository whose getRepoCommits has resolved.
C5_PaginationComplete ==
    /\ UserReposResolved =>
          /\ repos = AllRepos
          /\ EachPageOnce(RequestsOfKind("repos"), Len(remote.repoPages))
    /\ \A i \in DOMAIN commitTasks :
          commitTasks[i].state = "done" =>
              /\ Flatten(bodiesOf(requestsOf(Cur, "commits", i)))
                    = Flatten(remote.commitPages[repos[i]])
              /\ EachPageOnce({r \in RequestsOfKind("commits") : reqs[r].item = i},
                              Len(remote.commitPages[repos[i]]))

\* C5 witness: a listing of two pages has resolved, and so has a commit listing of three
C5_Witness ==
    /\ UserReposResolved
    /\ Len(remote.repoPages) = 2
    /\ Len(repos) = 2
    /\ \E i \in DOMAIN commitTasks :
          commitTasks[i].state = "done" /\ Len(remote.commitPages[repos[i]]) = 3

\* getCommitsFromRepos has returned
CommitsDiscovered ==
    /\ op \in CommitMode
    /\ \/ pc \in {"commitDetails", "resolved"}
       \/ pc = "rejected" /\ detailTasks # <<>>

\* The identity commits are attributed to
ResolvedIdentity == IF truthy(commitUsername) THEN commitUsername.val ELSE remote.login

\* The summaries of the repositories whose commit listing did not fail, in repository,
\* page and item order
RECURSIVE ListedSummaries(_)
ListedSummaries(i) ==
    IF i > Len(commitTasks) THEN <<>>
    ELSE (IF \E r \in FailedOfKind("commits") : reqs[r].item = i THEN <<>>
          ELSE Flatten(remote.commitPages[AllRepos[i]]))
         \o ListedSummaries(i + 1)

AuthoredBy(c, login) ==
    /\ c.type = "object"
    /\ c.author.type = "object"
    /\ c.author.login = login

\* The URLs of the commits, among ListedSummaries, whose author is the resolved identity
ExpectedCommitUrls ==
    LET kept == SelectSeq(ListedSummaries(1), LAMBDA c : AuthoredBy(c, ResolvedIdentity))
    IN [k \in DOMAIN kept |-> kept[k].url]

\* C6: what getCommitsFromRepos returns is the URLs of exactly the summaries whose
\* author login is the resolved identity, null summaries and summaries with a null
\* author dropped, in repository, page and item order.
C6_AttributionFilter ==
    CommitsDiscovered =>
        /\ user = ResolvedIdentity
        /\ summaries = ListedSummaries(1)
        /\ commitUrls = ExpectedCommitUrls

\* C6 witness: authors [alice, bob, alice] and [bob, alice] give alice's three commits
C6_Witness ==
    /\ CommitsDiscovered
    /\ Len(summaries) = 5
    /\ \A k \in 1..5 : summaries[k] # Null /\ summaries[k].author # Null
    /\ [k \in 1..5 |-> summaries[k].author.login] = <<"alice", "bob", "alice", "bob", "alice">>
    /\ commitUrls = << CommitUrl(1, 1, 1), CommitUrl(1, 1, 3), CommitUrl(2, 2, 1) >>

\* C7: a commit-mode operation rejects only with its validation error or with the error
\* of a failed listing, identity or commit-detail request, never because commit-list
\* requests failed; and what it resolves with is the totals of exactly the attributed
\* commits of the repositories none of whose commit-list requests failed.
C7_PerRepositoryTolerance ==
    op \in CommitMode =>
        /\ pc = "rejected" =>
              \/ error = ValidationError /\ reqs = <<>>
              \/ \E r \in FailedOfKind("repos") \cup FailedOfKind("user")
                            \cup FailedOfKind("commit") : reqs[r].error = error
        /\ pc = "resolved" =>
              result = mapCommitsToResult(
                          [k \in DOMAIN ExpectedCommitUrls |-> CommitDetail(ExpectedCommitUrls[k])])

\* C7 witness: resolved from the three commits of one repository, the commit listing
\* of the other having failed
C7_Witness ==
    /\ op \in CommitMode
    /\ pc = "resolved"
    /\ Len(repos) = 2
    /\ \E r \in FailedOfKind("commits") : reqs[r].item = 1
    /\ commitTasks[2].state = "done"
    /\ Len(summaries) = 3
    /\ Len(commitUrls) = 2
    /\ result # EmptyMap

\* C8: once a repository-listing request has failed, the operation has rejected with
\* the error of a failed listing request, and no request other than listing requests
\* has been issued.
C8_ListingFailurePassthrough ==
    FailedOfKind("repos") # {} =>
        /\ pc = "rejected"
        /\ \E r \in FailedOfKind("repos") : error = reqs[r].error
        /\ \A r \in DOMAIN reqs : reqs[r].kind = "repos"

\* C8 witness: rejected with 404 Not Found, the error of a failed later page
C8_Witness ==
    /\ pc = "rejected"
    /\ error.statusCode = 404 /\ error.message = "Not Found"
    /\ \E r \in FailedOfKind("repos") : reqs[r].qs.page = 2 /\ reqs[r].error = error
    /\ \A r \in FailedOfKind("repos") : reqs[r].qs.page # 0

\* C9: getRepoLanguages with the empty string as credential rejects and issues no request.
C9_EmptyTokenNoRequest ==
    (op = "getRepoLanguages" /\ token = JsString("")) =>
        /\ reqs = <<>>
        /\ pc \in {"start", "rejected"}

\* C10: with a credential that is not a string (and, for the ByUsername operations, a
\* valid username) the operation rejects with a validation error and issues no request.
C10_NonStringTokenRejected ==
    (token.type # "string" /\ (op \in ByUsername => truthy(username))) =>
        /\ reqs = <<>>
        /\ pc # "start" => (pc = "rejected" /\ error = ValidationError)

---------------------------------------------------------------------------
\* Claims about the arguments and the options

\* C11: a ByUsername operation whose username is the empty string or is not a string
\* rejects with a validation error and issues no request (it never lists the
\* repositories of the credential's owner instead).
C11_InvalidUsernameRejected ==
    (op \in ByUsername /\ ~(username.type = "string" /\ username.val # "")) =>
        /\ reqs = <<>>
        /\ pc # "start" => (pc = "rejected" /\ error = ValidationError)

\* What a listing request carries when the caller's values override the defaults
OverriddenVisibility ==
    IF options.visibility.type = "string" THEN options.visibility ELSE JsString("public")
OverriddenAffiliation ==
    IF options.affiliation.type = "array" THEN JsString(join(options.affiliation.items))
    ELSE JsString("owner,collaborator,organization_member")

\* C13: every repository-listing request of getRepoLanguages or getCommitLanguages
\* carries the caller's affiliation (its elements and nothing else, joined by commas)
\* and the caller's visibility, and the default of a property the caller left out.
C13_OptionsOverride ==
    op \notin ByUsername =>
        \A r \in RequestsOfKind("repos") :
            /\ reqs[r].qs.visibility = OverriddenVisibility
            /\ reqs[r].qs.affiliation = OverriddenAffiliation

\* C14: whatever calls were made before, with whatever options, the module-level
\* defaults are what they were when the module was loaded, and every repository-listing
\* request of a getRepoLanguages or getCommitLanguages call without options carries
\* visibility public and affiliation owner,collaborator,organization_member.
C14_DefaultsKept ==
    /\ defaultOpts = DefaultOpts
    /\ (op \notin ByUsername /\ options = NoOptions) =>
          \A r \in RequestsOfKind("repos") :
              /\ reqs[r].qs.visibility = JsString("public")
              /\ reqs[r].qs.affiliation = JsString("owner,collaborator,organization_member")

\* C14 witness: after a call with visibility private and affiliation [owner], a call
\* without options has had both pages of its listing answered
C14_Witness ==
    /\ earlier = << Options(JsString("private"), JsArray(<<"owner">>)) >>
    /\ op \notin ByUsername
    /\ options = NoOptions
    /\ Cardinality(RequestsOfKind("repos")) = 2
    /\ \A r \in RequestsOfKind("repos") :
          reqs[r].state = "ok" /\ reqs[r].qs.visibility = JsString("public")

\* C15: every repository-listing request of a ByUsername operation goes to
\* /users/{username}/repos, for the username of the call, with visibility public and
\* the default affiliation, whatever else the caller passes.
C15_ByUsernamePublic ==
    op \in ByUsername =>
        \A r \in RequestsOfKind("repos") :
            /\ username.type = "string" /\ username.val # ""
            /\ reqs[r].owner = username.val
            /\ reqs[r].qs.visibility = JsString("public")
            /\ reqs[r].qs.affiliation = JsString("owner,collaborator,organization_member")

\* The part of C15 that holds: with a non-empty username
C15_NamedUserPublic ==
    (op \in ByUsername /\ truthy(username)) =>
        \A r \in RequestsOfKind("repos") :
            /\ reqs[r].owner = username.val
            /\ reqs[r].qs.visibility = JsString("public")
            /\ reqs[r].qs.affiliation = JsString("owner,collaborator,organization_member")

---------------------------------------------------------------------------
\* Claims about the fan-out

InFlight(kinds) == {r \in DOMAIN reqs : reqs[r].kind \in kinds /\ reqs[r].state = "inflight"}

\* C12: at every moment of an operation at most PROMISE_CONCURRENCY (10) requests are
\* in flight, the requests of later listing pages and of later commit-list pages
\* included.
C12_SystemWideFanOut ==
    Cardinality(InFlight({"repos", "languages", "user", "commits", "commit"}))
        <= PROMISE_CONCURRENCY

\* The requests of one kind issued for item i of a Promise.map
RequestsFor(kind, i) == {r \in DOMAIN reqs : reqs[r].kind = kind /\ reqs[r].item = i}

\* C19: the language fan-out issues at most one request per repository, and exactly
\* one, for that repository, once it has resolved; the commit-detail fan-out
\* likewise per attributed commit URL; and of either kind never more than
\* PROMISE_CONCURRENCY (10) requests are in flight, so a further one is issued only
\* once fewer than 10 are outstanding.
C19_FanOutBounded ==
    /\ Cardinality(InFlight({"languages"})) <= PROMISE_CONCURRENCY
    /\ Cardinality(InFlight({"commit"})) <= PROMISE_CONCURRENCY
    /\ \A r \in DOMAIN reqs :
          /\ reqs[r].kind = "languages" =>
                /\ reqs[r].item \in DOMAIN repos /\ reqs[r].repo = repos[reqs[r].item]
                /\ Cardinality(RequestsFor("languages", reqs[r].item)) = 1
          /\ reqs[r].kind = "commit" =>
                /\ reqs[r].item \in DOMAIN commitUrls
                /\ reqs[r].commit = commitUrls[reqs[r].item]
                /\ Cardinality(RequestsFor("commit", reqs[r].item)) = 1
    /\ (pc = "resolved" /\ op \in BytesOnly) =>
          \A i \in DOMAIN AllRepos : Cardinality(RequestsFor("languages", i)) = 1
    /\ (pc = "resolved" /\ op \in CommitMode) =>
          \A i \in DOMAIN commitUrls : Cardinality(RequestsFor("commit", i)) = 1

\* C19 witness: of eleven repositories, the language request of the eleventh has been
\* issued after one of the first ten was answered, and ten are in flight
C19_Witness ==
    /\ op \in BytesOnly
    /\ pc = "languages"
    /\ Len(repos) = PROMISE_CONCURRENCY + 1
    /\ Cardinality(RequestsFor("languages", PROMISE_CONCURRENCY + 1)) = 1
    /\ Cardinality(InFlight({"languages"})) = PROMISE_CONCURRENCY
    /\ Cardinality({r \in DOMAIN reqs : reqs[r].kind = "languages" /\ reqs[r].state = "ok"}) = 1

---------------------------------------------------------------------------
\* Claims about failures and about the order of the requests

\* C16: in commit mode, once the identity lookup or a commit-detail request has failed,
\* the operation has rejected with the error of such a request and has returned no
\* totals (whereas failed commit-list requests do not reject it).
C16_RequiredRequestsPropagate ==
    (op \in CommitMode /\ FailedOfKind("user") \cup FailedOfKind("commit") # {}) =>
        /\ pc = "rejected"
        /\ result = EmptyMap
        /\ \E r \in FailedOfKind("user") \cup FailedOfKind("commit") : error = reqs[r].error

\* C16 witness: the commit listing of one repository failed and was tolerated, then a
\* commit-detail request failed with 404 and the operation rejected with it
C16_Witness ==
    /\ op \in CommitMode
    /\ pc = "rejected"
    /\ FailedOfKind("commits") # {}
    /\ \E r \in FailedOfKind("commit") : reqs[r].error = error /\ error.statusCode = 404
    /\ \E r \in RequestsOfKind("commit") : reqs[r].state = "ok"

\* C17: in bytes-only mode, once the language request of a repository has failed, the
\* operation has rejected with the error of such a request and has returned no totals;
\* it resolves only if no language request failed.
C17_NoPartialTotals ==
    op \in BytesOnly =>
        /\ FailedOfKind("languages") # {} =>
              /\ pc = "rejected"
              /\ result = EmptyMap
              /\ \E r \in FailedOfKind("languages") : error = reqs[r].error
        /\ pc = "resolved" => \A r \in RequestsOfKind("languages") : reqs[r].state = "ok"

\* C17 witness: of two repositories one has reported X and Y, the language request of
\* the other failed, and the operation rejected
C17_Witness ==
    /\ op \in BytesOnly
    /\ pc = "rejected"
    /\ Len(repos) = 2
    /\ \E r \in RequestsOfKind("languages") :
          reqs[r].state = "ok" /\ DOMAIN remote.languages[reqs[r].repo] = {"X", "Y"}
    /\ Cardinality(FailedOfKind("languages")) = 1

\* The first-page requests of a listing (the repositories, or the commits of item i)
FirstPage(kind, i) == {r \in RequestsFor(kind, i) : reqs[r].qs.page = 0}

\* C18: each listing (the repositories; the commits of each repository) has one
\* first-page request, and a request for a later page of it exists only after that
\* request, and only once it has been answered successfully; so after a failed
\* first page no later page is requested.
C18_FirstPageAlone ==
    \A r \in DOMAIN reqs :
        reqs[r].kind \in {"repos", "commits"} =>
            /\ Cardinality(FirstPage(reqs[r].kind, reqs[r].item)) = 1
            /\ reqs[r].qs.page # 0 =>
                  \A q \in FirstPage(reqs[r].kind, reqs[r].item) :
                      q < r /\ reqs[q].state = "ok"

\* C18 witness: the commits of one repository have a later page in flight after their
\* first page was answered, and the first page of another repository failed
C18_Witness ==
    /\ pc = "commitLists"
    /\ \E r \in RequestsOfKind("commits") : reqs[r].qs.page # 0 /\ reqs[r].state = "inflight"
    /\ \E r \in FailedOfKind("commits") :
          reqs[r].qs.page = 0 /\ Cardinality(RequestsFor("commits", reqs[r].item)) = 1
    /\ Cardinality(RequestsOfKind("repos")) = 2

\* The URLs of the listed summaries whose author login is name
UrlsAuthoredBy(name) ==
    LET kept == SelectSeq(ListedSummaries(1), LAMBDA c : AuthoredBy(c, name))
    IN [k \in DOMAIN kept |-> kept[k].url]

\* C20: getCommitLanguages issues at most one identity lookup, exactly one by the time
\* it lists commits, and it has been answered before any commit-list request exists;
\* getCommitLanguagesByUsername with a non-empty username issues none, every
\* commit-list request carries that username as author, and the commits kept are
\* those whose author login is that username.
C20_IdentityOnce ==
    /\ op = "getCommitLanguages" =>
          /\ Cardinality(RequestsOfKind("user")) <= 1
          /\ (RequestsOfKind("commits") # {} \/ pc \in {"commitLists", "commitDetails", "resolved"})
                => \E r \in RequestsOfKind("user") :
                      /\ reqs[r].state = "ok"
                      /\ \A q \in RequestsOfKind("commits") : r < q
    /\ (op = "getCommitLanguagesByUsername" /\ username.type = "string" /\ username.val # "") =>
          /\ RequestsOfKind("user") = {}
          /\ \A r \in RequestsOfKind("commits") : reqs[r].qs.author = username
          /\ pc \in {"commitLists", "commitDetails", "resolved"} => user = username.val
          /\ CommitsDiscovered => commitUrls = UrlsAuthoredBy(username.val)

\* C20 witness: getCommitLanguagesByUsername for bob, with the credential of alice, has
\* resolved from bob's two commits without any identity lookup
C20_Witness ==
    /\ op = "getCommitLanguagesByUsername"
    /\ username = JsString("bob")
    /\ remote.login = "alice"
    /\ pc = "resolved"
    /\ RequestsOfKind("user") = {}
    /\ commitUrls = << CommitUrl(1, 1, 1), CommitUrl(2, 1, 2) >>
    /\ result # EmptyMap

---------------------------------------------------------------------------
\* Files without a recognized language, and files without a usable patch

\* The file the inner _.each visits in a step that visits one
VisitedFile == commits[ci].files[fi + 1]

\* C22: visiting a file whose filename has no recognized language leaves the totals
\* as they were (no key created, no bytes and no commits added) and leaves the
\* languages already counted for the commit as they were, so that the files after it
\* in the commit are counted as if it were not there.
C22_UnrecognizedFileSkipped ==
    [][ (mpc = "files" /\ fi' = fi + 1 /\ detect_filename(VisitedFile.filename) = Undefined)
          => (totals' = totals /\ commitLangs' = commitLangs) ]_vars

\* C22 witness: a commit whose files are of X, of no language and of X again has been
\* aggregated, and X has one commit
C22_Witness ==
    /\ mpc = "done"
    /\ Len(commits) = 1
    /\ [k \in 1..Len(commits[1].files) |-> detect_filename(commits[1].files[k].filename)]
          = <<"X", Undefined, "X">>
    /\ DOMAIN totals = {"X"}
    /\ totals["X"].commits = 1

\* A patch that is absent, or that holds no line a diff parser reads as added or removed
Unusable(patch) ==
    \/ patch.type = "undefined"
    \/ \A k \in DOMAIN patch.lines : patch.lines[k].sign \notin {"@@", "+", "-"}

---------------------------------------------------------------------------
\* The totals of the commit aggregation as they grow

\* Commits the outer _.each has entered so far
CommitsEntered == Min(ci, Len(commits))

TotalsInRange ==
    \A L \in DOMAIN totals :
        /\ totals[L].commits >= 1
        /\ totals[L].commits <= CommitsEntered
        /\ totals[L].bytes >= 0

TotalsGrow ==
    \A L \in DOMAIN totals :
        /\ L \in DOMAIN totals'
        /\ totals'[L].commits >= totals[L].commits
        /\ totals'[L].bytes >= totals[L].bytes

\* C28: at every point of the aggregation and in the returned totals, every language
\* key has commits >= 1, commits <= the number of commits entered so far and
\* bytes >= 0; no step lowers a counter or removes a key.
C28_TotalsInvariant == [](mpc # "idle" => TotalsInRange) /\ [][TotalsGrow]_vars

\* C28 witness: two commits aggregated, X in both and with bytes, Y in one
C28_Witness ==
    /\ mpc = "done"
    /\ Len(commits) = 2
    /\ DOMAIN totals = {"X", "Y"}
    /\ totals["X"].commits = 2 /\ totals["X"].bytes > 0
    /\ totals["Y"].commits = 1

---------------------------------------------------------------------------
\* The order of the stages

\* Every page of the repository listing has been received
ListingReceived ==
    LET rs == RequestsOfKind("repos") IN
    /\ Cardinality(rs) = Len(remote.repoPages)
    /\ \A r \in rs : reqs[r].state = "ok"

\* The commit listing of every listed repository has succeeded or failed
CommitListingsSettled ==
    /\ Len(commitTasks) = Len(AllRepos)
    /\ \A i \in DOMAIN commitTasks : commitTasks[i].state \in {"done", "error"}

\* C21: a request of a later stage exists only once the stage before it is over: an
\* identity, commit-list or language request only after every page of the repository
\* listing has been received, and a commit-detail request only after the commit
\* listing of every repository has settled, with success or with failure.
C21_StageOrdering ==
    /\ RequestsOfKind("user") \cup RequestsOfKind("commits") \cup RequestsOfKind("languages") # {}
          => ListingReceived
    /\ RequestsOfKind("commit") # {} => ListingReceived /\ CommitListingsSettled

\* C21 witness: commit-detail requests are out after a listing of two pages and the
\* commit listings of two repositories, one of which failed on a later page
C21_Witness ==
    /\ RequestsOfKind("commit") # {}
    /\ Len(remote.repoPages) = 2
    /\ \E i, j \in DOMAIN commitTasks :
          /\ commitTasks[i].state = "error"
          /\ commitTasks[j].state = "done"
          /\ \E r \in RequestsFor("commits", i) :
                reqs[r].qs.page # 0 /\ reqs[r].state = "failed"

---------------------------------------------------------------------------
\* The totals as sums over the set of responses received, whatever their order

Answered(kind) == {r \in RequestsOfKind(kind) : reqs[r].state = "ok"}

\* Bytes the language responses in rs report for L
RECURSIVE BytesReported(_, _)
BytesReported(rs, L) ==
    IF rs = {} THEN 0
    ELSE LET r == CHOOSE q \in rs : TRUE
         IN (IF L \in DOMAIN body(reqs[r]) THEN body(reqs[r])[L] ELSE 0)
            + BytesReported(rs \ {r}, L)

\* Bytes the aggregation counts for the files of language L among files
RECURSIVE BytesCounted(_, _)
BytesCounted(files, L) ==
    IF files = <<>> THEN 0
    ELSE (IF detect_filename(Head(files).filename) = L
          THEN byteCount(parseDiffFromString(diffText(Head(files).patch))) ELSE 0)
         + BytesCounted(Tail(files), L)

\* The same over the commit-detail responses in rs
RECURSIVE BytesCountedIn(_, _)
BytesCountedIn(rs, L) ==
    IF rs = {} THEN 0
    ELSE LET r == CHOOSE q \in rs : TRUE
         IN BytesCounted(body(reqs[r]).files, L) + BytesCountedIn(rs \ {r}, L)

Touching(rs, L) == {r \in rs : HasLanguage(body(reqs[r]).files, L)}

\* C25: the totals an operation resolves with are a function of the set of responses
\* alone, so the same for every order in which the concurrent requests complete: in
\* bytes-only mode each language has the sum of what the language responses report;
\* in commit mode the commit-detail requests are those of the attributed commits of
\* the repositories whose listing did not fail, and each language has the number of
\* detail responses with a file of it and the sum of the bytes counted for its files.
C25_OrderIndependent ==
    pc = "resolved" =>
        /\ op \in BytesOnly =>
              LET rs == Answered("languages") IN
              /\ DOMAIN result = UNION {DOMAIN body(reqs[r]) : r \in rs}
              /\ \A L \in DOMAIN result : result[L] = BytesReported(rs, L)
        /\ op \in CommitMode =>
              LET rs == Answered("commit") IN
              /\ rs = RequestsOfKind("commit")
              /\ {reqs[r].commit : r \in rs}
                    = {ExpectedCommitUrls[k] : k \in DOMAIN ExpectedCommitUrls}
              /\ Cardinality(rs) = Len(ExpectedCommitUrls)
              /\ DOMAIN result = {L \in Languages : Touching(rs, L) # {}}
              /\ \A L \in DOMAIN result :
                    /\ result[L].commits = Cardinality(Touching(rs, L))
                    /\ result[L].bytes = BytesCountedIn(rs, L)

\* C25 witness: resolved from the commit details of two repositories, whose listings
\* and details were in flight together, with totals for two languages
C25_Witness ==
    /\ op \in CommitMode
    /\ pc = "resolved"
    /\ Len(commitTasks) = 2
    /\ \A i \in 1..2 : commitTasks[i].state = "done" /\ Cardinality(RequestsFor("commits", i)) >= 2
    /\ Cardinality(RequestsOfKind("commit")) >= 3
    /\ DOMAIN result = {"X", "Y"}

---------------------------------------------------------------------------
\* The credential on the requests

\* C27: every request issued (repository listing and its pages, language endpoints,
\* identity lookup, commit listing and its pages, commit detail) carries the
\* credential the caller supplied as its access_token.
C27_CredentialOnEveryRequest ==
    \A r \in DOMAIN reqs : reqs[r].qs.access_token = token

---------------------------------------------------------------------------
\* Commit discovery, repository by repository

\* The summaries of the repository at place i of the listing among cs, nulls left out
SummariesOf(cs, i) == SelectSeq(cs, LAMBDA c : c # Null /\ c.url[1] = repos[i])

ListingFailed(i) == \E r \in RequestsFor("commits", i) : reqs[r].state = "failed"

\* C29: once the commits are discovered, a repository one of whose commit-list
\* requests failed (the first page or a later one) has none of its summaries among
\* those handed to the attribution filter and none of its commits among the URLs,
\* also those of its pages that did arrive; every other repository has all the
\* summaries of all its pages there, in order.
C29_AllOrNothingPerRepository ==
    CommitsDiscovered =>
        \A i \in DOMAIN commitTasks :
            IF ListingFailed(i)
            THEN /\ SummariesOf(summaries, i) = <<>>
                 /\ \A k \in DOMAIN commitUrls : commitUrls[k][1] # repos[i]
            ELSE SummariesOf(summaries, i)
                    = SummariesOf(Flatten(remote.commitPages[repos[i]]), i)

\* C29 witness: the first page of one repository's listing arrived with summaries and
\* a later page failed; the summaries handed on are those of the other repository
C29_Witness ==
    /\ CommitsDiscovered
    /\ \E i, j \in DOMAIN commitTasks :
          /\ \E r, q \in RequestsFor("commits", i) :
                /\ reqs[r].qs.page = 0 /\ reqs[r].state = "ok" /\ body(reqs[r]) # <<>>
                /\ reqs[q].qs.page # 0 /\ reqs[q].state = "failed"
          /\ ~ListingFailed(j)
          /\ SummariesOf(summaries, i) = <<>>
          /\ SummariesOf(summaries, j) # <<>>
          /\ Len(summaries) = Len(Flatten(remote.commitPages[repos[j]]))

---------------------------------------------------------------------------
\* The query strings of the pages

\* C30: a request for a later page of a listing has the query string of the first
\* request of the same listing but for its page number (so the same visibility and
\* affiliation for the repositories, the same author for a repository's commits);
\* every request asks for 100 items a page; visibility and affiliation are on no
\* request but those for the repositories, author on none but those for commits.
C30_PagesCarryFilters ==
    /\ \A r \in DOMAIN reqs :
          /\ reqs[r].qs.per_page = 100
          /\ reqs[r].kind # "repos" =>
                reqs[r].qs.visibility = JsUndefined /\ reqs[r].qs.affiliation = JsUndefined
          /\ reqs[r].kind # "commits" => reqs[r].qs.author = JsUndefined
          /\ reqs[r].kind \notin {"repos", "commits"} => reqs[r].qs.page = 0
    /\ \A r \in DOMAIN reqs :
          reqs[r].qs.page # 0 =>
              \E q \in FirstPage(reqs[r].kind, reqs[r].item) :
                  /\ reqs[q].owner = reqs[r].owner /\ reqs[q].repo = reqs[r].repo
                  /\ reqs[r].qs = [reqs[q].qs EXCEPT !.page = reqs[r].qs.page]

\* C30 witness: a call with options has asked for the second page of the private
\* repositories, and for the second page of a repository's commits
C30_Witness ==
    /\ options = Options(JsString("private"), JsArray(<<"owner">>))
    /\ \E r \in RequestsOfKind("repos") :
          /\ reqs[r].qs.page = 2
          /\ reqs[r].qs.visibility = JsString("private")
          /\ reqs[r].qs.affiliation = JsString("owner,collaborator,organization_member")
    /\ \E r \in RequestsOfKind("commits") :
          reqs[r].qs.page = 2 /\ reqs[r].qs.author = JsString("alice")

---------------------------------------------------------------------------
\* Termination

Settled == pc \in {"resolved", "rejected"}

RECURSIVE CommitPagesOf(_)
CommitPagesOf(k) ==
    IF k > Len(AllRepos) THEN 0
    ELSE Len(remote.commitPages[AllRepos[k]]) + CommitPagesOf(k + 1)

RECURSIVE CommitsListedOf(_)
CommitsListedOf(k) ==
    IF k > Len(AllRepos) THEN 0
    ELSE Len(Flatten(remote.commitPages[AllRepos[k]])) + CommitsListedOf(k + 1)

\* The requests the remote data can call for: the pages of the listing, then a
\* language request per repository, or the identity, the pages of every repository's
\* commits and a detail per commit listed
MostRequests ==
    Len(remote.repoPages)
        + (IF op \in BytesOnly THEN Len(AllRepos)
           ELSE 1 + CommitPagesOf(1) + CommitsListedOf(1))

\* The operation is pending and one of the requests in flight is awaited by it
Awaiting ==
    \E r \in DOMAIN reqs :
        /\ reqs[r].state = "inflight"
        /\ \/ pc \in {"repos", "repoPages"} /\ reqs[r].kind = "repos"
           \/ pc = "languages" /\ reqs[r].kind = "languages"
           \/ pc = "user" /\ reqs[r].kind = "user"
           \/ pc = "commitLists" /\ reqs[r].kind = "commits"
                 /\ commitTasks[reqs[r].item].state = "pending"
           \/ pc = "commitDetails" /\ reqs[r].kind = "commit"

\* C26: when every request issued is answered, the operation issues no more requests
\* than the finite remote data calls for, it is never pending without a request it
\* awaits, and it eventually resolves or rejects.
C26_Terminates ==
    /\ [](Len(reqs) <= MostRequests)
    /\ [](pc \notin {"start", "resolved", "rejected"} => Awaiting)
    /\ <>Settled

\* C26 witness: a commit-mode operation has resolved after a listing of two pages and
\* eight or more requests, all of them answered
C26_Witness ==
    /\ op \in CommitMode
    /\ pc = "resolved"
    /\ Len(remote.repoPages) = 2
    /\ Len(reqs) >= 8
    /\ \A r \in DOMAIN reqs : reqs[r].state = "ok"

---------------------------------------------------------------------------
\* Listings of one page

\* The pagination metadata is absent, or lacks a next or a last page number
SinglePage(l) == ~l.present \/ ~({"next", "last"} \subseteq l.rels)

\* The answered first requests whose response says the listing has one page
SinglePageFirst(kind) ==
    {r \in RequestsOfKind(kind) :
        reqs[r].qs.page = 0 /\ reqs[r].state = "ok" /\ SinglePage(link(reqs[r]))}

\* C24: when the first response of a listing has no pagination metadata, or metadata
\* without a next or without a last page number, no further page of that listing is
\* requested and the listing succeeds with exactly the items of the first page:
\* getUserRepos returns them as the repositories, getRepoCommits resolves with them.
C24_SinglePageCollections ==
    /\ \A r \in SinglePageFirst("repos") :
          /\ RequestsOfKind("repos") = {r}
          /\ error # TypeError
          /\ repos = body(reqs[r])
    /\ \A r \in SinglePageFirst("commits") :
          /\ RequestsFor("commits", reqs[r].item) = {r}
          /\ commitTasks[reqs[r].item] = Task("done", NoError)

====
